---- MODULE Spec2Model ----
(***************************************************************************)
(* Model of the AWS ETL pipeline: the generator's partitioned upload        *)
(* (src/s3_uploader.py) and the S3-triggered transform-and-load handler     *)
(* (src/lambda_function.py).                                                *)
(*                                                                          *)
(* Strings that the code inspects (object keys) are sequences of            *)
(* one-character strings, so startswith/replace/strftime are computed.      *)
(* Amounts are integers in cents (25.00 is 2500).                           *)
(***************************************************************************)
EXTENDS Integers, Sequences, FiniteSets, TLC

VARIABLES
    env,             \* os.environ restricted to the five REDSHIFT_* variables
    store,           \* the S3 bucket: object key -> object
    table,           \* portfolio_transactions, committed rows
    txn,             \* rows as seen inside the open connection's transaction
    conn,            \* the psycopg2 connection of the running invocation
    pc,              \* position of lambda_handler
    object_key,      \* local object_key of lambda_handler (<<>>: not bound)
    df,              \* local df
    transformed_df,  \* local transformed_df
    idx,             \* position of the df.iterrows() loop in load_to_redshift
    insert_count,    \* local insert_count of load_to_redshift
    result,          \* value returned by lambda_handler
    clock,           \* datetime.now(), one tick per transform_data
    ops,             \* number of uploads and invocations so far
    trace,           \* collaborator calls made by the running invocation
    pre,             \* store/warehouse as they were when the invocation began
    delivered        \* keys processed completely since they were last uploaded

vars == <<env, store, table, txn, conn, pc, object_key, df, transformed_df,
          idx, insert_count, result, clock, ops, trace, pre, delivered>>

----------------------------------------------------------------------------
\* Bounds

MaxRows == 2
MaxOps == 3
MaxInputRows == 2
AmountSpread == 1
MaxKeySegments == 2

----------------------------------------------------------------------------
\* Strings

RawData == <<"r","a","w","-","d","a","t","a">>
ProcessedData == <<"p","r","o","c","e","s","s","e","d","-","d","a","t","a">>
RawPrefix == RawData \o <<"/">>
DotCsv == <<".","c","s","v">>
DotJson == <<".","j","s","o","n">>
Unknown == <<"u","n","k","n","o","w","n">>
Digits == <<"0","1","2","3","4","5","6","7","8","9">>

\* str.startswith
StartsWith(s, p) == Len(s) >= Len(p) /\ SubSeq(s, 1, Len(p)) = p

\* str.replace: every non-overlapping occurrence, left to right
RECURSIVE Replace(_, _, _)
Replace(s, old, new) ==
    IF Len(s) < Len(old) THEN s
    ELSE IF SubSeq(s, 1, Len(old)) = old
         THEN new \o Replace(SubSeq(s, Len(old) + 1, Len(s)), old, new)
         ELSE <<Head(s)>> \o Replace(Tail(s), old, new)

\* decimal digits of n, at least width of them (zero padded)
RECURSIVE Decimal(_, _)
Decimal(n, width) ==
    IF n < 10 /\ width <= 1 THEN <<Digits[n + 1]>>
    ELSE Decimal(n \div 10, width - 1) \o <<Digits[(n % 10) + 1]>>

\* mutant: the month without zero padding
StrfM_unpadded(date) == Decimal(date.month, 1)

\* date.strftime for the directives the code uses
StrfY(date) == Decimal(date.year, 4)
StrfM(date) == Decimal(date.month, 2)
StrfD(date) == Decimal(date.day, 2)
StrfYmd(date) == StrfY(date) \o StrfM(date) \o StrfD(date)

----------------------------------------------------------------------------
\* Generator (src/s3_uploader.py)

\* S3DataUploader.upload_csv_data: the partitioned key
upload_csv_key(folder, date) ==
    folder \o <<"/">>
      \o <<"y","e","a","r","=">> \o StrfY(date) \o <<"/">>
      \o <<"m","o","n","t","h","=">> \o StrfM(date) \o <<"/">>
      \o <<"d","a","y","=">> \o StrfD(date) \o <<"/">>
      \o <<"t","r","a","n","s","a","c","t","i","o","n","s","-">>
      \o StrfYmd(date) \o DotCsv

----------------------------------------------------------------------------
\* Data frames

NA == "NaN"                      \* a missing cell of a text column

Num(v) == [kind |-> "num", val |-> v]
NaNAmount == [kind |-> "nan", val |-> 0]     \* empty cell / float NaN
TextAmount == [kind |-> "text", val |-> 0]   \* a cell that is not a number

\* one row of the raw CSV as pd.read_csv returns it
RawRow(id, amount, account) ==
    [transaction_id |-> id, amount |-> amount, account |-> account]

\* pd.isna on a cell of the amount column
IsNaAmount(a) == a.kind = "nan"

\* pd.to_numeric(errors='coerce') on one cell
ToNumeric(a) == IF a.kind = "num" THEN a ELSE NaNAmount

\* abs() / Series.abs() on one cell (NaN stays NaN)
Abs(a) == IF a.kind = "num" THEN Num(IF a.val < 0 THEN 0 - a.val ELSE a.val) ELSE a

\* thresholds of categorize_amount, in cents
SmallLimit == 2500
MediumLimit == 10000
LargeLimit == 50000

\* mutant: the thresholds applied to the signed amount
categorize_amount_no_abs(amount) ==
    IF IsNaAmount(amount) THEN "unknown"
    ELSE IF amount.val < SmallLimit THEN "small"
    ELSE IF amount.val < MediumLimit THEN "medium"
    ELSE IF amount.val < LargeLimit THEN "large"
    ELSE "very_large"

categorize_amount(amount) ==
    IF IsNaAmount(amount) THEN "unknown"
    ELSE LET abs_amount == Abs(amount).val
         IN  IF abs_amount < SmallLimit THEN "small"
             ELSE IF abs_amount < MediumLimit THEN "medium"
             ELSE IF abs_amount < LargeLimit THEN "large"
             ELSE "very_large"

\* mutant: dropna(subset=['transaction_id'])
dropna_id_only(rows) == SelectSeq(rows, LAMBDA r : r.transaction_id # "NaN")

\* DataFrame.dropna(subset=['transaction_id', 'amount'])
RECURSIVE dropna(_)
dropna(rows) ==
    IF rows = <<>> THEN <<>>
    ELSE LET r == Head(rows)
         IN  IF r.transaction_id = NA \/ IsNaAmount(r.amount)
             THEN dropna(Tail(rows))
             ELSE <<r>> \o dropna(Tail(rows))

\* the per-row part of transform_data, applied to a row that survived dropna
TransformRow(r, now) ==
    LET amount == ToNumeric(r.amount)
    IN  [transaction_id      |-> r.transaction_id,
         amount              |-> amount,
         amount_abs          |-> Abs(amount),
         amount_category     |-> categorize_amount(amount),
         account             |-> r.account,
         processed_timestamp |-> now,
         processed_by        |-> "lambda-etl-pipeline"]

\* transform_data on a frame that has the transaction_id and amount columns
Transform(rows, now) ==
    LET kept == dropna(rows)
    IN  [i \in 1..Len(kept) |-> TransformRow(kept[i], now)]

----------------------------------------------------------------------------
\* Warehouse

EnvVars == {"REDSHIFT_HOST", "REDSHIFT_PORT", "REDSHIFT_DB",
            "REDSHIFT_USER", "REDSHIFT_PASSWORD"}

\* mutant: any() in place of all()
is_redshift_configured_any == \E v \in EnvVars : env[v] = "set"

\* is_redshift_configured: os.environ.get(var) is truthy for a non-empty value
is_redshift_configured == \A v \in EnvVars : env[v] = "set"

\* the tuple bound to the INSERT statement
InsertValues(row, source_file) ==
    [transaction_id      |-> row.transaction_id,
     amount              |-> row.amount,
     amount_abs          |-> row.amount_abs,
     amount_category     |-> row.amount_category,
     account             |-> row.account,
     processed_timestamp |-> row.processed_timestamp,
     processed_by        |-> row.processed_by,
     source_file         |-> source_file]

\* mutant: ON CONFLICT DO UPDATE of every column
Upsert_every_column(rows, new) ==
    {old \in rows : old.transaction_id # new.transaction_id} \cup {new}

\* mutant: a plain INSERT into a table that does not enforce the key
Upsert_insert_only(rows, new) == rows \cup {new}

\* INSERT ... ON CONFLICT (transaction_id) DO UPDATE SET amount, processed_timestamp
Upsert(rows, new) ==
    IF \E old \in rows : old.transaction_id = new.transaction_id
    THEN { IF old.transaction_id = new.transaction_id
           THEN [old EXCEPT !.amount = new.amount,
                            !.processed_timestamp = new.processed_timestamp]
           ELSE old : old \in rows }
    ELSE rows \cup {new}

processed_key_ext_only(original_key) == Replace(original_key, DotCsv, DotJson)

\* save_processed_data: the key of the processed object
processed_key(original_key) ==
    Replace(Replace(original_key, RawData, ProcessedData), DotCsv, DotJson)

----------------------------------------------------------------------------
\* Inputs

Date(y, m, d) == [year |-> y, month |-> m, day |-> d]

\* the calendar dates of three years (datetime holds valid dates only)
IsLeap(y) == (y % 4 = 0 /\ y % 100 # 0) \/ y % 400 = 0
DaysIn(y, m) ==
    IF m = 2 THEN (IF IsLeap(y) THEN 29 ELSE 28)
    ELSE IF m \in {4, 6, 9, 11} THEN 30 ELSE 31
KeyYears == {1999, 2023, 2024}
KeyDates == {dt \in {Date(y, m, d) : y \in KeyYears, m \in 1..12, d \in 1..31} :
                dt.day <= DaysIn(dt.year, dt.month)}
KeyFolders == {RawData, ProcessedData}

\* the pipeline specification uploads one day's file to the raw-data folder
Dates == {Date(2024, 7, 26)}
Folders == {RawData}

\* keys a notification may carry: the generator's keys, the pipeline's own
\* output, and a key under the watched prefix that nothing was uploaded to
EventKeys ==
    {upload_csv_key(f, d) : f \in {RawData, ProcessedData}, d \in Dates}
      \cup {processed_key(upload_csv_key(RawData, d)) : d \in Dates}
      \cup {RawPrefix \o <<"x">> \o DotCsv}

\* the two key computations, tabulated once for the keys of the pipeline
\* specification; any other key is computed where it is used
UploadKeyOf == [f \in Folders, d \in Dates |-> upload_csv_key(f, d)]
ProcessedKeyOf == [k \in EventKeys |-> processed_key(k)]
UploadKey(folder, date) ==
    IF folder \in Folders /\ date \in Dates THEN UploadKeyOf[folder, date]
    ELSE upload_csv_key(folder, date)
ProcessedKey(original_key) ==
    IF original_key \in EventKeys THEN ProcessedKeyOf[original_key]
    ELSE processed_key(original_key)

Events == {[Records |-> <<>>]} \cup {[Records |-> <<k>>] : k \in EventKeys}

\* two versions of one transaction (the later one has another amount and
\* another account) and a second transaction
PipelineRows ==
    {RawRow("T1", Num(1000), "checking"),
     RawRow("T1", Num(0 - 3000), "savings"),
     RawRow("T2", Num(1000), "checking")}

RECURSIVE SeqsUpTo(_, _)
SeqsUpTo(S, n) ==
    IF n = 0 THEN {<<>>}
    ELSE LET shorter == SeqsUpTo(S, n - 1)
         IN  shorter \cup {Append(q, x) : q \in {t \in shorter : Len(t) = n - 1}, x \in S}

\* a frame: whether the header has the transaction_id and amount columns, and the rows
Frame(critical, rows) == [critical |-> critical, rows |-> rows]
NoFrame == Frame(FALSE, <<>>)
Frames == {Frame(TRUE, rows) : rows \in SeqsUpTo(PipelineRows, MaxRows)} \cup {NoFrame}

\* inputs of the transform stage: amounts at and around zero and the three
\* thresholds, of both signs, a missing amount, an amount that is no number,
\* and a row without transaction_id
TransformAmounts ==
    {Num(sign * (limit + delta)) :
        sign \in {1, 0 - 1},
        limit \in {0, SmallLimit, MediumLimit, LargeLimit},
        delta \in (0 - AmountSpread)..AmountSpread}
      \cup {NaNAmount, TextAmount}
TransformRows ==
    {RawRow("T1", a, "checking") : a \in TransformAmounts}
      \cup {RawRow(NA, Num(1000), "savings")}
TransformFrames == {Frame(TRUE, rows) : rows \in SeqsUpTo(TransformRows, MaxInputRows)}

\* environments: every variable set, or one of them missing or empty
Envs == {[v \in EnvVars |-> "set"]}
          \cup {[v \in EnvVars |-> IF v = w THEN x ELSE "set"] :
                    w \in EnvVars, x \in {"absent", "empty"}}

----------------------------------------------------------------------------
\* State

EmptyStore == [k \in {} |-> 0]
NoResult == [statusCode |-> 0, message |-> "", records_processed |-> 0, source_file |-> <<>>]
NoPre == [store |-> EmptyStore, table |-> {}, redelivery |-> FALSE]

Call(op, ok, id, key) == [op |-> op, ok |-> ok, id |-> id, key |-> key]

Init ==
    /\ env \in Envs
    /\ store = EmptyStore
    /\ table = {}
    /\ txn = {}
    /\ conn = "none"
    /\ pc = "idle"
    /\ object_key = <<>>
    /\ df = NoFrame
    /\ transformed_df = <<>>
    /\ idx = 0
    /\ insert_count = 0
    /\ result = NoResult
    /\ clock = 0
    /\ ops = 0
    /\ trace = <<>>
    /\ pre = NoPre
    /\ delivered = {}

\* mutant: every key is processed
no_guard(key) == TRUE

\* line 29: object_key.startswith('raw-data/')
in_raw_data_folder(key) == StartsWith(key, RawPrefix)

\* mutant: the failure result does not carry the source key
Fail_without_key(error) ==
    /\ pc' = "done"
    /\ result' = [statusCode |-> 500, message |-> error, records_processed |-> 0,
                  source_file |-> Unknown]

\* the except clause of lambda_handler: statusCode 500, the error and the source key
Fail(error) ==
    /\ pc' = "done"
    /\ result' = [statusCode |-> 500, message |-> error, records_processed |-> 0,
                  source_file |-> IF object_key = <<>> THEN Unknown ELSE object_key]

----------------------------------------------------------------------------
\* Generator: S3DataUploader.upload_csv_data

upload_csv_data(frame, date, folder) ==
    /\ pc = "idle"
    /\ ops < MaxOps
    /\ LET s3_key == UploadKey(folder, date)
       IN  /\ store' = (s3_key :> [content_type |-> "text/csv", body |-> frame,
                                   record_count |-> Len(frame.rows),
                                   data_date |-> date]) @@ store
           /\ delivered' = delivered \ {s3_key}
    /\ ops' = ops + 1
    /\ UNCHANGED <<env, table, txn, conn, pc, object_key, df, transformed_df,
                   idx, insert_count, result, clock, trace, pre>>

----------------------------------------------------------------------------
\* Pipeline: lambda_handler and the stages it calls

\* lines 20-34: parse the event and apply the routing guard
lambda_handler(event) ==
    /\ pc = "idle"
    /\ ops < MaxOps
    /\ ops' = ops + 1
    /\ trace' = <<>>
    /\ IF event.Records = <<>>
       THEN /\ Fail("KeyError")
            /\ UNCHANGED object_key
            /\ pre' = [store |-> store, table |-> table, redelivery |-> FALSE]
       ELSE LET key == event.Records[1]
            IN  /\ object_key' = key
                /\ pre' = [store |-> store, table |-> table,
                           redelivery |-> key \in delivered]
                /\ IF ~in_raw_data_folder(key)
                   THEN /\ pc' = "done"
                        /\ result' = [statusCode |-> 200,
                                      message |-> "File skipped - not in raw-data folder",
                                      records_processed |-> 0, source_file |-> <<>>]
                   ELSE /\ pc' = "read"
                        /\ UNCHANGED result
    /\ UNCHANGED <<env, store, table, txn, conn, df, transformed_df, idx,
                   insert_count, clock, delivered>>

read_s3_data ==
    /\ pc = "read"
    /\ \/ /\ object_key \in DOMAIN store
          /\ store[object_key].content_type = "text/csv"
          /\ df' = store[object_key].body
          /\ pc' = "transform"
          /\ trace' = Append(trace, Call("get_object", TRUE, "", object_key))
          /\ UNCHANGED result
       \/ /\ Fail("ReadFailed")
          /\ trace' = Append(trace, Call("get_object", FALSE, "", object_key))
          /\ UNCHANGED df
    /\ UNCHANGED <<env, store, table, txn, conn, object_key, transformed_df, idx,
                   insert_count, clock, ops, pre, delivered>>

transform_data ==
    /\ pc = "transform"
    /\ IF df.critical
       THEN /\ transformed_df' = Transform(df.rows, clock + 1)
            /\ clock' = clock + 1
            /\ pc' = "configured"
            /\ trace' = Append(trace, Call("transform", TRUE, "", <<>>))
            /\ UNCHANGED result
       ELSE /\ Fail("KeyError")
            /\ trace' = Append(trace, Call("transform", FALSE, "", <<>>))
            /\ UNCHANGED <<transformed_df, clock>>
    /\ UNCHANGED <<env, store, table, txn, conn, object_key, df, idx,
                   insert_count, ops, pre, delivered>>

\* lines 43-47
load_if_configured ==
    /\ pc = "configured"
    /\ pc' = IF is_redshift_configured THEN "connect" ELSE "save"
    /\ UNCHANGED <<env, store, table, txn, conn, object_key, df, transformed_df, idx,
                   insert_count, result, clock, ops, trace, pre, delivered>>

\* load_to_redshift, lines 193-194
connect ==
    /\ pc = "connect"
    /\ \/ /\ conn' = "open"
          /\ txn' = table
          /\ pc' = "create_table"
          /\ trace' = Append(trace, Call("connect", TRUE, "", <<>>))
          /\ UNCHANGED result
       \/ /\ Fail("ConnectFailed")
          /\ trace' = Append(trace, Call("connect", FALSE, "", <<>>))
          /\ UNCHANGED <<conn, txn>>
    /\ UNCHANGED <<env, store, table, object_key, df, transformed_df, idx,
                   insert_count, clock, ops, pre, delivered>>

\* load_to_redshift, lines 219-223
create_table ==
    /\ pc = "create_table"
    /\ \/ /\ pc' = "insert"
          /\ idx' = 1
          /\ insert_count' = 0
          /\ trace' = Append(trace, Call("create_table", TRUE, "", <<>>))
          /\ UNCHANGED result
       \/ /\ Fail("CreateTableFailed")
          /\ trace' = Append(trace, Call("create_table", FALSE, "", <<>>))
          /\ UNCHANGED <<idx, insert_count>>
    /\ UNCHANGED <<env, store, table, txn, conn, object_key, df, transformed_df,
                   clock, ops, pre, delivered>>

\* mutant: a failed insert is not caught in the loop and aborts the load stage
insert_row_abort ==
    /\ pc = "insert"
    /\ idx <= Len(transformed_df)
    /\ LET row == transformed_df[idx]
       IN  \/ /\ txn' = Upsert(txn, InsertValues(row, object_key))
              /\ insert_count' = insert_count + 1
              /\ trace' = Append(trace, Call("insert", TRUE, row.transaction_id, <<>>))
              /\ UNCHANGED <<pc, result>>
           \/ /\ trace' = Append(trace, Call("insert", FALSE, row.transaction_id, <<>>))
              /\ Fail("RowInsertFailed")
              /\ UNCHANGED <<txn, insert_count>>
    /\ idx' = idx + 1
    /\ UNCHANGED <<env, store, table, conn, object_key, df, transformed_df,
                   clock, ops, pre, delivered>>

\* load_to_redshift, lines 224-260: one pass of the loop body
insert_row ==
    /\ pc = "insert"
    /\ idx <= Len(transformed_df)
    /\ LET row == transformed_df[idx]
       IN  \/ /\ txn' = Upsert(txn, InsertValues(row, object_key))
              /\ insert_count' = insert_count + 1
              /\ trace' = Append(trace, Call("insert", TRUE, row.transaction_id, <<>>))
           \/ /\ trace' = Append(trace, Call("insert", FALSE, row.transaction_id, <<>>))
              /\ UNCHANGED <<txn, insert_count>>
    /\ idx' = idx + 1
    /\ UNCHANGED <<env, store, table, conn, pc, object_key, df, transformed_df,
                   result, clock, ops, pre, delivered>>

\* load_to_redshift, lines 262-271
commit ==
    /\ pc = "insert"
    /\ idx > Len(transformed_df)
    /\ \/ /\ table' = txn
          /\ conn' = "closed"
          /\ pc' = "save"
          /\ trace' = Append(trace, Call("commit", TRUE, "", <<>>))
          /\ UNCHANGED result
       \/ /\ Fail("CommitFailed")
          /\ trace' = Append(trace, Call("commit", FALSE, "", <<>>))
          /\ UNCHANGED <<table, conn>>
    /\ UNCHANGED <<env, store, txn, object_key, df, transformed_df, idx,
                   insert_count, clock, ops, pre, delivered>>

\* save_processed_data and lines 52-61 of lambda_handler
save_processed_data ==
    /\ pc = "save"
    /\ LET key == ProcessedKey(object_key)
       IN  \/ /\ store' = (key :> [content_type |-> "application/json",
                                    body |-> transformed_df,
                                    original_file |-> object_key,
                                    record_count |-> Len(transformed_df),
                                    processing_stage |-> "transformed"]) @@ store
              /\ trace' = Append(trace, Call("put_object", TRUE, "", key))
              /\ pc' = "done"
              /\ result' = [statusCode |-> 200,
                            message |-> "ETL pipeline completed successfully",
                            records_processed |-> Len(transformed_df),
                            source_file |-> object_key]
              /\ delivered' = IF is_redshift_configured => insert_count = Len(transformed_df)
                              THEN delivered \cup {object_key}
                              ELSE delivered
           \/ /\ Fail("WriteBackFailed")
              /\ trace' = Append(trace, Call("put_object", FALSE, "", key))
              /\ UNCHANGED <<store, delivered>>
    /\ UNCHANGED <<env, table, txn, conn, object_key, df, transformed_df, idx,
                   insert_count, clock, ops, pre>>

\* lambda_handler has returned; its locals go away
return ==
    /\ pc = "done"
    /\ pc' = "idle"
    /\ object_key' = <<>>
    /\ df' = NoFrame
    /\ transformed_df' = <<>>
    /\ idx' = 0
    /\ insert_count' = 0
    /\ result' = NoResult
    /\ trace' = <<>>
    /\ pre' = NoPre
    /\ conn' = "none"
    /\ txn' = {}
    /\ UNCHANGED <<env, store, table, clock, ops, delivered>>

Next ==
    \/ \E frame \in Frames, date \in Dates, folder \in Folders :
           upload_csv_data(frame, date, folder)
    \/ \E event \in Events : lambda_handler(event)
    \/ read_s3_data
    \/ transform_data
    \/ load_if_configured
    \/ connect
    \/ create_table
    \/ insert_row
    \/ commit
    \/ save_processed_data
    \/ return

Spec == Init /\ [][Next]_vars

----------------------------------------------------------------------------
\* The transform stage on its own: transform_data applied to any input frame

InitTransform ==
    /\ env = [v \in EnvVars |-> "set"]
    /\ store = EmptyStore
    /\ table = {}
    /\ txn = {}
    /\ conn = "none"
    /\ pc = "transform"
    /\ object_key = UploadKey(RawData, Date(2024, 7, 26))
    /\ df \in TransformFrames
    /\ transformed_df = <<>>
    /\ idx = 0
    /\ insert_count = 0
    /\ result = NoResult
    /\ clock = 0
    /\ ops = 1
    /\ trace = <<>>
    /\ pre = NoPre
    /\ delivered = {}

NextTransform == transform_data

SpecTransform == InitTransform /\ [][NextTransform]_vars

----------------------------------------------------------------------------
\* The key scheme on its own: one upload for any date and folder, then the
\* pipeline on the uploaded key, with the load stage not configured

KeyFrame == Frame(TRUE, <<RawRow("T1", Num(1000), "checking")>>)

InitKeys ==
    /\ Init
    /\ env = [v \in EnvVars |-> IF v = "REDSHIFT_HOST" THEN "absent" ELSE "set"]

upload_any_date ==
    /\ DOMAIN store = {}
    /\ \E date \in KeyDates, folder \in KeyFolders : upload_csv_data(KeyFrame, date, folder)

NextKeys ==
    \/ upload_any_date
    \/ \E key \in DOMAIN store : lambda_handler([Records |-> <<key>>])
    \/ read_s3_data
    \/ transform_data
    \/ load_if_configured
    \/ save_processed_data
    \/ return

SpecKeys == InitKeys /\ [][NextKeys]_vars

\* Notifications for arbitrary objects under raw-data/: the bucket holds one
\* csv object whose key is raw-data/ followed by up to MaxKeySegments pieces
\* taken from the words the key rewriting looks for; the pipeline is
\* triggered for every object in the bucket, its own output included.
KeySegments == {RawData, ProcessedData, DotCsv, DotJson, <<"/">>, <<"x">>}

RECURSIVE Concat(_)
Concat(parts) == IF parts = <<>> THEN <<>> ELSE Head(parts) \o Concat(Tail(parts))

GuardKeys == {RawPrefix \o Concat(parts) : parts \in SeqsUpTo(KeySegments, MaxKeySegments)}

InitWriteBack ==
    /\ env = [v \in EnvVars |-> IF v = "REDSHIFT_HOST" THEN "absent" ELSE "set"]
    /\ \E key \in GuardKeys :
           store = (key :> [content_type |-> "text/csv", body |-> KeyFrame,
                            record_count |-> Len(KeyFrame.rows),
                            data_date |-> Date(2024, 7, 26)])
    /\ table = {}
    /\ txn = {}
    /\ conn = "none"
    /\ pc = "idle"
    /\ object_key = <<>>
    /\ df = NoFrame
    /\ transformed_df = <<>>
    /\ idx = 0
    /\ insert_count = 0
    /\ result = NoResult
    /\ clock = 0
    /\ ops = 0
    /\ trace = <<>>
    /\ pre = NoPre
    /\ delivered = {}

NextWriteBack ==
    \/ \E key \in DOMAIN store : lambda_handler([Records |-> <<key>>])
    \/ read_s3_data
    \/ transform_data
    \/ load_if_configured
    \/ save_processed_data
    \/ return

SpecWriteBack == InitWriteBack /\ [][NextWriteBack]_vars

----------------------------------------------------------------------------
\* Properties

Last(s) == s[Len(s)]
Calls(op) == SelectSeq(trace, LAMBDA c : c.op = op)
Called(op, ok) == \E i \in 1..Len(trace) : trace[i].op = op /\ trace[i].ok = ok
WarehouseOps == {"connect", "create_table", "insert", "commit"}
StageOps == {"get_object", "transform", "connect", "create_table", "commit", "put_object"}
Ids(rows) == {r.transaction_id : r \in rows}
UniqueIds(rows) == \A a, b \in rows : a.transaction_id = b.transaction_id => a = b
Skipped == [statusCode |-> 200, message |-> "File skipped - not in raw-data folder",
            records_processed |-> 0, source_file |-> <<>>]

\* the key does not begin with the nine characters raw-data/
OutsideRawData(key) ==
    Len(key) < 9 \/ \E i \in 1..9 : key[i] # <<"r","a","w","-","d","a","t","a","/">>[i]

\* C1: when the handler has returned for a notification whose key is outside
\* raw-data/, the result is the skipped result (status 200), no collaborator
\* was called (no get, transform, connect, execute, commit, put), and the
\* object store and the warehouse are as they were when the invocation began.
C1_RoutingGuard ==
    (pc = "done" /\ object_key # <<>> /\ OutsideRawData(object_key)) =>
        /\ result = Skipped
        /\ trace = <<>>
        /\ store = pre.store
        /\ table = pre.table
        /\ conn = "none"

\* C1 witness: the pipeline's own output exists in the store, its notification
\* was delivered, and the handler returned the skipped result.
C1_Witness ==
    /\ pc = "done"
    /\ object_key \in DOMAIN store
    /\ OutsideRawData(object_key)
    /\ store[object_key].content_type = "application/json"
    /\ result.statusCode = 200

ErrorOf(op) ==
    CASE op = "get_object" -> "ReadFailed"
      [] op = "transform" -> "KeyError"
      [] op = "connect" -> "ConnectFailed"
      [] op = "create_table" -> "CreateTableFailed"
      [] op = "commit" -> "CommitFailed"
      [] op = "put_object" -> "WriteBackFailed"

\* C2: a failed stage (read, transform, connect, create table, commit,
\* write-back) is the last thing the invocation did: the handler is done, with
\* status 500, the stage's error message and the source key; an event from
\* which no key could be extracted gives status 500 with source 'unknown' and
\* no stage run at all. Every failure ends in a returned result.
C2_StageErrorAborts ==
    /\ \A i \in 1..Len(trace) :
          (trace[i].op \in StageOps /\ ~trace[i].ok) =>
              /\ i = Len(trace)
              /\ pc = "done"
              /\ result.statusCode = 500
              /\ result.message = ErrorOf(trace[i].op)
              /\ result.source_file = object_key
              /\ object_key # <<>>
    /\ (pc = "done" /\ object_key = <<>>) =>
          /\ result.statusCode = 500
          /\ result.source_file = <<"u","n","k","n","o","w","n">>
          /\ trace = <<>>
    /\ (pc = "done") => result.statusCode \in {200, 500}

\* C2 witness: the write-back failed after a committed load, and the handler
\* returned status 500 with the source key.
C2_Witness ==
    /\ pc = "done"
    /\ Called("commit", TRUE)
    /\ Called("put_object", FALSE)
    /\ result.statusCode = 500
    /\ result.source_file = object_key

OtherColumns == {"transaction_id", "amount_abs", "amount_category", "account",
                 "processed_by", "source_file"}

\* one successful execute of the INSERT statement for transformed_df[idx]
C3_UpsertStep ==
    (pc = "insert" /\ insert_count' = insert_count + 1) =>
        LET row == transformed_df[idx]
        IN  IF row.transaction_id \in Ids(txn)
            THEN \E old \in txn, upd \in txn' :
                    /\ old.transaction_id = row.transaction_id
                    /\ txn' = (txn \ {old}) \cup {upd}
                    /\ upd.amount = row.amount
                    /\ upd.processed_timestamp = row.processed_timestamp
                    /\ \A c \in OtherColumns : upd[c] = old[c]
            ELSE \E new \in txn' :
                    /\ txn' = txn \cup {new}
                    /\ new.transaction_id = row.transaction_id
                    /\ new.amount = row.amount
                    /\ new.amount_abs = row.amount_abs
                    /\ new.amount_category = row.amount_category
                    /\ new.account = row.account
                    /\ new.processed_timestamp = row.processed_timestamp
                    /\ new.processed_by = row.processed_by
                    /\ new.source_file = object_key

\* C3: an upsert of a row whose transaction_id is absent adds the row; an
\* upsert of a row whose transaction_id is present changes only that row, and
\* only its amount and processed_timestamp, to the new values; the table and
\* the transaction view never hold two rows with one transaction_id.
C3_UpsertSemantics ==
    /\ [](UniqueIds(table) /\ UniqueIds(txn))
    /\ [][C3_UpsertStep]_vars

\* C3 witness: T1 was inserted with account checking, then upserted with
\* another account and amount in a later invocation: the committed row has the
\* first account, the latest amount and the latest timestamp.
C3_Witness ==
    \E r \in table :
        /\ r.transaction_id = "T1"
        /\ r.account = "checking"
        /\ r.amount = Num(0 - 3000)
        /\ r.amount_abs = Num(1000)
        /\ r.processed_timestamp = 2

\* C4: the loop attempts the rows in order whatever fails; when the loop is
\* over every row was attempted once, a failed insert is never the last thing
\* the load stage did (the commit follows), insert_count is the number of
\* inserts that succeeded, and after the commit the table holds the
\* transaction's rows, one for each id whose insert succeeded.
C4_RowFailuresSkipped ==
    LET inserts == Calls("insert")
        succeeded == {i \in 1..Len(inserts) : inserts[i].ok}
    IN  /\ (pc = "insert") =>
              /\ Len(inserts) = idx - 1
              /\ conn = "open"
              /\ result.statusCode = 0
        /\ (pc # "insert" /\ trace # <<>>) => Last(trace).op # "insert"
        /\ (Called("commit", TRUE) \/ Called("commit", FALSE) \/ pc = "insert") =>
              /\ \A i \in 1..Len(inserts) :
                    inserts[i].id = transformed_df[i].transaction_id
              /\ insert_count = Cardinality(succeeded)
        /\ (Called("commit", TRUE) \/ Called("commit", FALSE)) =>
              Len(inserts) = Len(transformed_df)
        /\ Called("commit", TRUE) =>
              /\ table = txn
              /\ \A i \in succeeded : inserts[i].id \in Ids(table)

\* C4 witness: of two rows the first insert failed and the second succeeded,
\* the batch was committed and one row was counted.
C4_Witness ==
    /\ pc = "save"
    /\ Len(transformed_df) = 2
    /\ Len(Calls("insert")) = 2
    /\ Calls("insert")[1].ok = FALSE
    /\ Calls("insert")[2].ok = TRUE
    /\ insert_count = 1
    /\ Called("commit", TRUE)

\* C5: when the handler has returned, the connection it opened is closed.
C5_ConnectionReleased == (pc = "done") => conn # "open"

Present(v) == env[v] # "absent"
NonEmpty(v) == env[v] = "set"
LoadEntered == pc \in {"connect", "create_table", "insert"} \/ Called("connect", TRUE)
                  \/ Called("connect", FALSE)
Decided == pc \in {"connect", "create_table", "insert", "save"}
              \/ (pc = "done" /\ Called("transform", TRUE))

C7_RedeliverySafe ==
    (pc = "done" /\ pre.redelivery) =>
        /\ DOMAIN store = DOMAIN pre.store
        /\ Ids(table) = Ids(pre.table)
        /\ UniqueIds(table)
        /\ Cardinality(table) = Cardinality(pre.table)
        /\ \A i \in 1..Len(trace) :
              trace[i].op = "put_object" => trace[i].key \in DOMAIN pre.store

\* C7 witness: the second delivery ran to the end with the load stage on: it
\* upserted rows, committed and overwrote the processed object.
C7_Witness ==
    /\ pc = "done"
    /\ pre.redelivery
    /\ Called("commit", TRUE)
    /\ Called("put_object", TRUE)
    /\ insert_count > 0
    /\ result.statusCode = 200

Critical(r) == r.transaction_id # "NaN" /\ r.amount.kind # "nan"
KeptBefore(i) == Cardinality({k \in 1..i : Critical(df.rows[k])})

\* C8: the output of transform_data is the input rows that have both
\* transaction_id and amount, in order and nothing else: the j-th output row
\* comes from the j-th such input row, with its number as amount, or a null
\* amount if the amount is no number; the output is no longer than the input.
C8_DropsExactlyMissing ==
    (pc = "configured") =>
        /\ Len(transformed_df) = KeptBefore(Len(df.rows))
        /\ Len(transformed_df) <= Len(df.rows)
        /\ \A i \in 1..Len(df.rows) :
              Critical(df.rows[i]) =>
                  LET out == transformed_df[KeptBefore(i)]
                      in == df.rows[i]
                  IN  /\ out.transaction_id = in.transaction_id
                      /\ out.account = in.account
                      /\ out.amount = IF in.amount.kind = "num" THEN in.amount
                                      ELSE [kind |-> "nan", val |-> 0]

\* C8 witness: of two input rows the one without transaction_id was dropped
\* and the one whose amount is no number was kept, with a null amount.
C8_Witness ==
    /\ pc = "configured"
    /\ Len(df.rows) = 2
    /\ df.rows[1].transaction_id = "NaN"
    /\ df.rows[2].amount.kind = "text"
    /\ Len(transformed_df) = 1
    /\ transformed_df[1].amount.kind = "nan"

Magnitude(v) == IF v < 0 THEN 0 - v ELSE v

\* C9: every transformed row's amount_category follows the absolute value of
\* its amount: below 25.00 small, below 100.00 medium, below 500.00 large,
\* otherwise very_large, unknown for a null amount; two rows whose amounts are
\* opposite have the same category.
C9_CategoryByAbsoluteValue ==
    /\ \A i \in 1..Len(transformed_df) :
          LET a == transformed_df[i].amount
              c == transformed_df[i].amount_category
          IN  /\ (a.kind = "nan") => c = "unknown"
              /\ (a.kind = "num" /\ Magnitude(a.val) < 2500) => c = "small"
              /\ (a.kind = "num" /\ Magnitude(a.val) >= 2500 /\ Magnitude(a.val) < 10000)
                    => c = "medium"
              /\ (a.kind = "num" /\ Magnitude(a.val) >= 10000 /\ Magnitude(a.val) < 50000)
                    => c = "large"
              /\ (a.kind = "num" /\ Magnitude(a.val) >= 50000) => c = "very_large"
    /\ \A i, j \in 1..Len(transformed_df) :
          LET a == transformed_df[i].amount
              b == transformed_df[j].amount
          IN  (a.kind = "num" /\ b.kind = "num" /\ a.val = 0 - b.val) =>
                  transformed_df[i].amount_category = transformed_df[j].amount_category

\* C9 witness: a frame with the amounts -25.00 and 24.99 was transformed: the
\* first is medium, the second small.
C9_Witness ==
    /\ Len(transformed_df) = 2
    /\ transformed_df[1].amount = Num(0 - 2500)
    /\ transformed_df[1].amount_category = "medium"
    /\ transformed_df[2].amount = Num(2499)
    /\ transformed_df[2].amount_category = "small"

Digit(n) == <<"0","1","2","3","4","5","6","7","8","9">>[n + 1]
YYYY(d) == <<Digit(d.year \div 1000), Digit((d.year \div 100) % 10),
             Digit((d.year \div 10) % 10), Digit(d.year % 10)>>
MM(d) == <<Digit(d.month \div 10), Digit(d.month % 10)>>
DD(d) == <<Digit(d.day \div 10), Digit(d.day % 10)>>
Partition(d) ==
    <<"/","y","e","a","r","=">> \o YYYY(d) \o <<"/","m","o","n","t","h","=">> \o MM(d)
      \o <<"/","d","a","y","=">> \o DD(d)
      \o <<"/","t","r","a","n","s","a","c","t","i","o","n","s","-">>
      \o YYYY(d) \o MM(d) \o DD(d)
ExpectedRawKey(d) == <<"r","a","w","-","d","a","t","a">> \o Partition(d) \o <<".","c","s","v">>
ExpectedProcessedKey(d) ==
    <<"p","r","o","c","e","s","s","e","d","-","d","a","t","a">> \o Partition(d)
      \o <<".","j","s","o","n">>

ExpectedRawKeys == [d \in KeyDates |-> ExpectedRawKey(d)]
ExpectedProcessedKeys == [d \in KeyDates |-> ExpectedProcessedKey(d)]

\* C10: for every date, the generator's upload of that date's file with the
\* raw-data folder creates the object
\* raw-data/year=YYYY/month=MM/day=DD/transactions-YYYYMMDD.csv, and the
\* pipeline's write-back for that object goes to
\* processed-data/year=YYYY/month=MM/day=DD/transactions-YYYYMMDD.json and
\* is recorded as made from it.
C10_KeySchemeRoundTrip ==
    /\ [][(DOMAIN store = {} /\ DOMAIN store' # {}) =>
            \A k \in DOMAIN store' :
                upload_csv_data(KeyFrame, store'[k].data_date, RawData) =>
                    k = ExpectedRawKeys[store'[k].data_date]]_vars
    /\ []((trace # <<>> /\ Last(trace).op = "put_object") =>
            LET d == store[object_key].data_date
            IN  /\ object_key = ExpectedRawKeys[d]
                /\ Last(trace).key = ExpectedProcessedKeys[d]
                /\ Last(trace).ok =>
                      /\ DOMAIN store = {ExpectedRawKeys[d], ExpectedProcessedKeys[d]}
                      /\ store[ExpectedProcessedKeys[d]].original_file = ExpectedRawKeys[d])

\* C10 witness: the file of 5 December 1999 was uploaded to raw-data and the
\* pipeline wrote its processed copy.
C10_Witness ==
    /\ pc = "done"
    /\ object_key = ExpectedRawKey(Date(1999, 12, 5))
    /\ result.statusCode = 200
    /\ ExpectedProcessedKey(Date(1999, 12, 5)) \in DOMAIN store

\* C11: the pipeline never writes under the watched prefix. Every write-back
\* of an invocation that passed the routing guard goes to a key outside
\* raw-data/ and differs from the notification key; every object under
\* raw-data/ is still the csv object it was before the invocation (the raw
\* object is never overwritten); every object the pipeline wrote lies outside
\* raw-data/, and a notification for such an object ends in the skipped
\* result having made no call, so the pipeline does not trigger itself again.
WrittenByPipeline(key) == store[key].content_type = "application/json"

C11_NeverWritesUnderWatchedPrefix ==
    /\ \A i \in 1..Len(trace) :
           trace[i].op = "put_object" =>
               /\ ~OutsideRawData(object_key)
               /\ OutsideRawData(trace[i].key)
               /\ trace[i].key # object_key
    /\ \A key \in DOMAIN store :
           IF OutsideRawData(key)
           THEN pc = "done" /\ object_key = key /\ WrittenByPipeline(key)
                    => result = Skipped /\ trace = <<>>
           ELSE /\ ~WrittenByPipeline(key)
                /\ pc # "idle" => key \in DOMAIN pre.store /\ store[key] = pre.store[key]

\* C11 witness: the object raw-data/raw-data.csv was processed, its copy
\* processed-data/processed-data.json was written, the notification for that
\* copy was delivered and skipped, and the raw object is still in place.
C11_Witness ==
    /\ pc = "done"
    /\ object_key = ProcessedData \o <<"/">> \o ProcessedData \o DotJson
    /\ object_key \in DOMAIN store
    /\ WrittenByPipeline(object_key)
    /\ store[object_key].original_file = RawPrefix \o RawData \o DotCsv
    /\ store[object_key].original_file \in DOMAIN store
    /\ result = Skipped

\* C12: with the load stage enabled, every committed warehouse row whose
\* amount is a number has amount_abs equal to the absolute value of that
\* amount.
C12_AmountAbsMatches ==
    is_redshift_configured =>
        \A r \in table :
            r.amount.kind = "num" => r.amount_abs = Num(Magnitude(r.amount.val))

====
